---- MODULE Spec2Model ----
(***************************************************************************)
(* A state-machine model of the table/join recommendation core:            *)
(*   SchemaScout.search_tables            (src/schema_scout.py)            *)
(*   JoinabilitySheriff.generate_combinations (src/joinability_sheriff.py) *)
(*   GraphRanker.graph_ranker             (src/graph_ranker.py)            *)
(*   SchemaSyncOrchestrator.sync_connection (src/sync_orchestrator.py)     *)
(* and of the loop of main() that chains the first two (src/main.py).      *)
(*                                                                         *)
(* Similarity scores are integers (tenths); an aggregate score is kept as  *)
(* a numerator over the common denominator 6, so that the means of two and *)
(* of three scores are exact.  Floating-point rounding is not modelled.    *)
(* Strings that are tokenised, matched or sent to the predictor are         *)
(* sequences of characters.                                                *)
(***************************************************************************)
EXTENDS Integers, Sequences, FiniteSets, TLC

\* ------------------------------------------------------------------ bounds
\* The vector index holds at most MaxIndex entries for the question.
MaxIndex == 7
\* The longest selected_tables list handed to generate_combinations.
MaxSelected == 31
\* The index entries for a question put to main().
MaxMainIndex == 3
\* The longest list of validated hits step 6 of search_tables is run on.
MaxValidated == 12
\* The runs of sync_connection in a behaviour.
MaxSyncRuns == 3
\* search_tables' default top_k and the top_k main() passes.
DefaultTopK == 2
MainTopK == 5

\* ----------------------------------------------------------------- helpers
Min(a, b) == IF a <= b THEN a ELSE b
Max(a, b) == IF a >= b THEN a ELSE b

\* Python's s[:n] for n >= 0.
Take(s, n) == SubSeq(s, 1, Min(n, Len(s)))

\* Python's [x for x in s if p(x)].
RECURSIVE SelectSeqIdx(_, _, _)
SelectSeqIdx(s, keep, i) ==
    IF i > Len(s) THEN << >>
    ELSE (IF keep[i] THEN << s[i] >> ELSE << >>) \o SelectSeqIdx(s, keep, i + 1)

\* Similarity scores, in tenths.
ScoreVals == {1, 2, 3}
Connections == {"c1", "c2"}

\* The hash stored with every embedding of the index, and the other hash the
\* metadata store may hold for a table whose schema has changed since.
EmbeddedHash == "h1"
ChangedHash == "h2"

VARIABLES
    \* --- SchemaScout.search_tables
    collection,         \* the index entries for the question, best first
    top_k,              \* argument top_k
    connection_ids,     \* argument connection_ids ({} models None / empty)
    results,            \* results[0]: the hits the index returned
    hit_idx,            \* position of the validation loop in results
    store_replies,      \* what get_table_schema returned for each hit so far
    validated_results,
    tables_to_resync,
    resync_queue,       \* jobs accepted by resync_table_embeddings.delay
    scoutPc,
    scoutResult,
    scoutError,
    \* --- JoinabilitySheriff.generate_combinations
    selected_tables,    \* argument selected_tables
    connection_id,      \* local connection_id (line 42)
    fk_map,             \* what metadata_store.get_fk_map returned
    genPc,
    genResult,
    genError,
    \* --- GraphRanker.graph_ranker
    question,           \* self.question, a string (sequence of characters)
    schema_metadata,    \* self.schema_metadata: table name -> schema
    rank_combinations,  \* argument combinations
    top_10,             \* what heuristic_filter returned
    combo_idx,          \* position of the scoring loop in top_10
    predict_log,        \* the calls of predictor.predict and how each ended
    scored_combos,
    rankPc,
    rankResult,
    rankError,
    \* --- SchemaSyncOrchestrator.sync_connection
    source_hash,        \* schema_hash the inspector computes for each table
    table_metadata,     \* metadata store: the schema_hash stored for each table
    embeddings,         \* vector index: the schema_hash of each table's embedding
    sync_idx,           \* position of the loop of sync_connection in tables
    sync_failed,        \* some table of the current run failed to sync
    sync_runs,          \* runs of sync_connection started so far
    syncPc

scoutVars == << collection, top_k, connection_ids, results, hit_idx, store_replies,
                validated_results, tables_to_resync, resync_queue, scoutPc,
                scoutResult, scoutError >>

genVars == << selected_tables, connection_id, fk_map, genPc, genResult, genError >>

rankVars == << question, schema_metadata, rank_combinations, top_10, combo_idx,
               predict_log, scored_combos, rankPc, rankResult, rankError >>

syncVars == << source_hash, table_metadata, embeddings, sync_idx, sync_failed, sync_runs,
              syncPc >>

vars == << scoutVars, genVars, rankVars, syncVars >>

\* What a step of one component leaves alone.
notScout == << genVars, rankVars, syncVars >>
notGen == << scoutVars, rankVars, syncVars >>
notRank == << scoutVars, genVars, syncVars >>
notSync == << scoutVars, genVars, rankVars >>

\* ======================================================================
\* SchemaScout (src/schema_scout.py)
\* ======================================================================

\* The index entries for a question: n tables, best first.  In the "single"
\* layout every table belongs to connection c1, in the "mixed" layout the
\* connections alternate.
ScoreSeqs(n) == { s \in [1..n -> ScoreVals] : \A i \in 1..(n - 1) : s[i] >= s[i + 1] }

ConnOf(layout, i) == IF layout = "single" \/ i % 2 = 1 THEN "c1" ELSE "c2"

IndexEntries(layout, s) ==
    [ i \in 1..Len(s) |->
        [ connection_id |-> ConnOf(layout, i), table_name |-> i,
          schema_hash |-> EmbeddedHash, distance |-> s[i] ] ]

\* What MetadataStore.get_table_schema returns: None when the table has no
\* row, else the row's schema and hash.
NoRow == [ found |-> FALSE, hash |-> "none" ]
StoreReply == { NoRow } \cup { [ found |-> TRUE, hash |-> h ] : h \in {EmbeddedHash, ChangedHash} }

\* The filter expression of step 2: no filter when connection_ids is falsy.
MatchesFilter(entry) == connection_ids = {} \/ entry.connection_id \in connection_ids

\* collection.search(..., limit=top_k, expr=filter_expr): the first top_k
\* entries that match the filter, in the index's order.
search(coll, limit) ==
    Take(SelectSeqIdx(coll, [ i \in 1..Len(coll) |-> MatchesFilter(coll[i]) ], 1), limit)

MaxOf(S) == CHOOSE m \in S : \A x \in S : m >= x

\* drops.index(max(drops)), 0-based.
FirstIndexOf(drops, d) ==
    (CHOOSE i \in 1..Len(drops) : drops[i] = d /\ \A j \in 1..(i - 1) : drops[j] # d) - 1

find_score_elbow_StrictBands(scores) ==
    IF Len(scores) < 3 THEN Len(scores)
    ELSE LET drops == [ i \in 1..(Len(scores) - 1) |-> scores[i] - scores[i + 1] ]
             max_drop_idx == FirstIndexOf(drops, MaxOf({ drops[i] : i \in 1..Len(drops) }))
             elbow_point == max_drop_idx + 1
         IN  IF elbow_point < 5 THEN 5
             ELSE IF elbow_point < 10 THEN 10
             ELSE 15

find_score_elbow(scores) ==
    IF Len(scores) < 3 THEN Len(scores)
    ELSE LET drops == [ i \in 1..(Len(scores) - 1) |-> scores[i] - scores[i + 1] ]
             max_drop_idx == FirstIndexOf(drops, MaxOf({ drops[i] : i \in 1..Len(drops) }))
             elbow_point == max_drop_idx + 1
         IN  IF elbow_point <= 5 THEN 5
             ELSE IF elbow_point <= 10 THEN 10
             ELSE 15

ClampCutoff_None(k) == k

\* k = max(5, min(15, k)) of step 6.
ClampCutoff(k) == Max(5, Min(15, k))

ResyncJob(hit) == [ connection_id |-> hit.connection_id, table_name |-> hit.table_name ]

ValidatedEntry(hit, cached_schema) ==
    [ connection_id |-> hit.connection_id, table_name |-> hit.table_name,
      similarity_score |-> hit.distance, schema |-> cached_schema.hash ]

\* A hit is validated when the store has the table and its hash matches.
IsValidated_AnyCachedSchema(hit, cached_schema) == cached_schema.found

IsValidated(hit, cached_schema) ==
    cached_schema.found /\ cached_schema.hash = hit.schema_hash

ScoutFails(why) ==
    /\ scoutPc' = "failed"
    /\ scoutError' = why

EmbedQuestion_SearchesAnyway ==
    /\ scoutPc = "embed"
    /\ scoutPc' = "search"
    /\ scoutError' \in {"none", "embedding"}
    /\ UNCHANGED << collection, top_k, connection_ids, results, hit_idx, store_replies,
                    validated_results, tables_to_resync, resync_queue, scoutResult >>
    /\ UNCHANGED notScout

\* Step 1: embedding_model.encode(question); an exception propagates.
EmbedQuestion ==
    /\ scoutPc = "embed"
    /\ \/ /\ scoutPc' = "search"
          /\ UNCHANGED scoutError
       \/ ScoutFails("embedding")
    /\ UNCHANGED << collection, top_k, connection_ids, results, hit_idx, store_replies,
                    validated_results, tables_to_resync, resync_queue, scoutResult >>
    /\ UNCHANGED notScout

\* Steps 2 and 3: the filtered vector search with limit=top_k.
VectorSearch ==
    /\ scoutPc = "search"
    /\ \/ /\ results' = search(collection, top_k)
          /\ scoutPc' = "validate"
          /\ UNCHANGED scoutError
       \/ /\ ScoutFails("vector_index")
          /\ UNCHANGED results
    /\ UNCHANGED << collection, top_k, connection_ids, hit_idx, store_replies,
                    validated_results, tables_to_resync, resync_queue, scoutResult >>
    /\ UNCHANGED notScout

\* Step 4, one iteration of the loop over results[0].
ValidateHit ==
    /\ scoutPc = "validate"
    /\ hit_idx <= Len(results)
    /\ LET hit == results[hit_idx] IN
       \/ \E cached_schema \in StoreReply :
            /\ store_replies' = Append(store_replies, cached_schema)
            /\ IF IsValidated(hit, cached_schema)
               THEN /\ validated_results' =
                          Append(validated_results, ValidatedEntry(hit, cached_schema))
                    /\ UNCHANGED tables_to_resync
               ELSE /\ tables_to_resync' = Append(tables_to_resync, ResyncJob(hit))
                    /\ UNCHANGED validated_results
            /\ hit_idx' = hit_idx + 1
            /\ UNCHANGED << scoutPc, scoutError >>
       \/ /\ ScoutFails("metadata_store")
          /\ UNCHANGED << store_replies, validated_results, tables_to_resync, hit_idx >>
    /\ UNCHANGED << collection, top_k, connection_ids, results, resync_queue, scoutResult >>
    /\ UNCHANGED notScout

\* The loop is over; step 5 runs only when some hit is stale.
EndValidation ==
    /\ scoutPc = "validate"
    /\ hit_idx > Len(results)
    /\ scoutPc' = IF Len(tables_to_resync) > 0 THEN "resync" ELSE "elbow"
    /\ UNCHANGED << collection, top_k, connection_ids, results, hit_idx, store_replies,
                    validated_results, tables_to_resync, resync_queue, scoutResult,
                    scoutError >>
    /\ UNCHANGED notScout

\* Step 5: trigger_async_resync imports the task and calls delay once per
\* table, inside search_tables and with no exception handler: the import or
\* any delay may raise, after n jobs were accepted.
TriggerAsyncResync ==
    /\ scoutPc = "resync"
    /\ \E n \in 0..Len(tables_to_resync) :
         /\ resync_queue' = resync_queue \o Take(tables_to_resync, n)
         /\ \/ /\ n = Len(tables_to_resync)
               /\ scoutPc' = "elbow"
               /\ UNCHANGED scoutError
            \/ /\ n < Len(tables_to_resync)
               /\ ScoutFails("resync")
    /\ UNCHANGED << collection, top_k, connection_ids, results, hit_idx, store_replies,
                    validated_results, tables_to_resync, scoutResult >>
    /\ UNCHANGED notScout

\* Step 6: the early return on zero validated hits, else elbow and clamp.
SelectCutoff ==
    /\ scoutPc = "elbow"
    /\ IF Len(validated_results) = 0
       THEN scoutResult' = [ tables |-> << >>, k |-> 0 ]
       ELSE LET scores == [ i \in 1..Len(validated_results) |->
                              validated_results[i].similarity_score ]
                k == ClampCutoff(find_score_elbow(scores))
            IN  scoutResult' = [ tables |-> Take(validated_results, k),
                                 k |-> k,
                                 total_searched |-> Len(results),
                                 stale_embeddings |-> Len(tables_to_resync) ]
    /\ scoutPc' = "returned"
    /\ UNCHANGED << collection, top_k, connection_ids, results, hit_idx, store_replies,
                    validated_results, tables_to_resync, resync_queue, scoutError >>
    /\ UNCHANGED notScout

ScoutNext ==
    \/ EmbedQuestion
    \/ VectorSearch
    \/ ValidateHit
    \/ EndValidation
    \/ TriggerAsyncResync
    \/ SelectCutoff

\* A call search_tables(question, connection_ids, top_k) at its first line.
ScoutStart(filter, limit, layout, maxN) ==
    /\ \E n \in 0..maxN : \E s \in ScoreSeqs(n) : collection = IndexEntries(layout, s)
    /\ top_k = limit
    /\ connection_ids = filter
    /\ results = << >>
    /\ hit_idx = 1
    /\ store_replies = << >>
    /\ validated_results = << >>
    /\ tables_to_resync = << >>
    /\ resync_queue = << >>
    /\ scoutPc = "embed"
    /\ scoutResult = [ tables |-> << >> ]
    /\ scoutError = "none"

ScoutIdle ==
    /\ collection = << >>
    /\ top_k = 0
    /\ connection_ids = {}
    /\ results = << >>
    /\ hit_idx = 1
    /\ store_replies = << >>
    /\ validated_results = << >>
    /\ tables_to_resync = << >>
    /\ resync_queue = << >>
    /\ scoutPc = "idle"
    /\ scoutResult = [ tables |-> << >> ]
    /\ scoutError = "none"



\* ======================================================================
\* MetadataStore.get_fk_map (src/metadata_store.py)
\* ======================================================================

\* A row of the foreign_keys table.  UNIQUE(connection_id, from_table,
\* to_table): a table content is a set of rows with distinct such triples.
FkRow(c, f, t) ==
    [ connection_id |-> c, from_table |-> f, to_table |-> t,
      from_columns |-> << 10 * f + t >>, to_columns |-> << 10 * t >> ]

\* A row for a foreign key over two columns.
FkRow2(c, f, t) ==
    [ connection_id |-> c, from_table |-> f, to_table |-> t,
      from_columns |-> << 10 * f + t, 10 * f + t + 5 >>, to_columns |-> << 10 * t, 10 * t + 5 >> ]

\* The rows the SELECT of get_fk_map matches.
FkQuery(foreign_keys, conn, table_names) ==
    { r \in foreign_keys : /\ r.connection_id = conn
                           /\ r.from_table \in table_names
                           /\ r.to_table \in table_names }

RowKey(r) == 100 * r.from_table + r.to_table

RECURSIVE RowsAscending(_)
RowsAscending(S) ==
    IF S = {} THEN << >>
    ELSE LET m == CHOOSE r \in S : \A q \in S : RowKey(r) <= RowKey(q)
         IN  << m >> \o RowsAscending(S \ {m})

Reverse(s) == [ i \in 1..Len(s) |-> s[Len(s) + 1 - i] ]

Permutations3(S) ==
    { p \in [1..Cardinality(S) -> S] : \A i, j \in 1..Cardinality(S) : p[i] = p[j] => i = j }

\* The SELECT has no ORDER BY: cur.fetchall() may return the matching rows in
\* any order.  Every order of up to three rows is considered, and the
\* ascending and the descending order of more.
RowOrders(S) ==
    IF Cardinality(S) <= 3 THEN Permutations3(S)
    ELSE { RowsAscending(S), Reverse(RowsAscending(S)) }

\* The nested dict built from the rows keeps insertion order: keys lists the
\* from_tables in order of first appearance, targets[f] the (to_table, info)
\* items of fk_map[f] in order of appearance.
RECURSIVE FirstAppearance(_, _)
FirstAppearance(rows, seen) ==
    IF rows = << >> THEN << >>
    ELSE IF Head(rows).from_table \in seen THEN FirstAppearance(Tail(rows), seen)
    ELSE << Head(rows).from_table >>
         \o FirstAppearance(Tail(rows), seen \cup {Head(rows).from_table})

BuildFkMap(rows) ==
    [ keys |-> FirstAppearance(rows, {}),
      targets |-> [ f \in { rows[i].from_table : i \in 1..Len(rows) } |->
                      SelectSeqIdx(rows, [ i \in 1..Len(rows) |-> rows[i].from_table = f ], 1) ] ]

EmptyFkMap == BuildFkMap(<< >>)

\* ======================================================================
\* JoinabilitySheriff (src/joinability_sheriff.py)
\* ======================================================================

\* An aggregate score: the sum of the similarity scores over their count.
Frac(n, d) == [ num |-> n, den |-> d ]
FracGreater(a, b) == a.num * b.den > b.num * a.den

RECURSIVE Concat(_)
Concat(ss) == IF ss = << >> THEN << >> ELSE Head(ss) \o Concat(Tail(ss))

\* sorted(combinations, key=similarity_score, reverse=True): stable, so
\* entries of equal score keep their order.
RECURSIVE InsertDesc(_, _)
InsertDesc(sorted, x) ==
    IF sorted = << >> THEN << x >>
    ELSE IF FracGreater(x.similarity_score, Head(sorted).similarity_score)
         THEN << x >> \o sorted
         ELSE << Head(sorted) >> \o InsertDesc(Tail(sorted), x)

RECURSIVE SortedDesc(_)
SortedDesc(s) ==
    IF s = << >> THEN << >>
    ELSE InsertDesc(SortedDesc(SubSeq(s, 1, Len(s) - 1)), s[Len(s)])

TableNames(sel) == { sel[i].table_name : i \in 1..Len(sel) }

\* The dict comprehension: a later entry of the same name overwrites.
TableScores(sel) ==
    [ n \in TableNames(sel) |->
        sel[CHOOSE i \in 1..Len(sel) :
              /\ sel[i].table_name = n
              /\ \A j \in (i + 1)..Len(sel) : sel[j].table_name # n].similarity_score ]

JoinPath(f, info) ==
    [ from_table |-> f, to_table |-> info.to_table,
      from_columns |-> info.from_columns, to_columns |-> info.to_columns ]

generate_singles(sel) ==
    [ i \in 1..Len(sel) |->
        [ tables |-> << sel[i].table_name >>,
          similarity_score |-> Frac(sel[i].similarity_score, 1),
          connection_id |-> sel[i].connection_id,
          join_paths |-> << >>,
          complexity |-> 1 ] ]

PairCombo_Reversed(sel, from_table, info) ==
    [ tables |-> << info.to_table, from_table >>,
      similarity_score |->
          Frac(TableScores(sel)[from_table] + TableScores(sel)[info.to_table], 2),
      connection_id |-> sel[1].connection_id,
      join_paths |-> << [ from_table |-> info.to_table, to_table |-> from_table,
                          from_columns |-> info.to_columns, to_columns |-> info.from_columns ] >>,
      complexity |-> 2 ]

PairCombo_SumOfScores(sel, from_table, info) ==
    [ tables |-> << from_table, info.to_table >>,
      similarity_score |->
          Frac(TableScores(sel)[from_table] + TableScores(sel)[info.to_table], 1),
      connection_id |-> sel[1].connection_id,
      join_paths |-> << JoinPath(from_table, info) >>,
      complexity |-> 2 ]

PairCombo(sel, from_table, info) ==
    [ tables |-> << from_table, info.to_table >>,
      similarity_score |->
          Frac(TableScores(sel)[from_table] + TableScores(sel)[info.to_table], 2),
      connection_id |-> sel[1].connection_id,
      join_paths |-> << JoinPath(from_table, info) >>,
      complexity |-> 2 ]

generate_pairs(sel, fkm) ==
    LET table_names == TableNames(sel)
        PairsFrom(from_table) ==
            IF from_table \notin table_names THEN << >>
            ELSE LET fk_targets == fkm.targets[from_table] IN
                 Concat([ j \in 1..Len(fk_targets) |->
                            IF fk_targets[j].to_table \notin table_names THEN << >>
                            ELSE << PairCombo(sel, from_table, fk_targets[j]) >> ])
    IN  SortedDesc(Concat([ i \in 1..Len(fkm.keys) |-> PairsFrom(fkm.keys[i]) ]))

ChainCombo_SecondPathFromOrigin(sel, table1, info1, info2) ==
    [ tables |-> << table1, info1.to_table, info2.to_table >>,
      similarity_score |->
          Frac(TableScores(sel)[table1] + TableScores(sel)[info1.to_table]
                 + TableScores(sel)[info2.to_table], 3),
      connection_id |-> sel[1].connection_id,
      join_paths |-> << JoinPath(table1, info1), JoinPath(table1, info2) >>,
      complexity |-> 3 ]

ChainCombo_OneJoinPath(sel, table1, info1, info2) ==
    [ tables |-> << table1, info1.to_table, info2.to_table >>,
      similarity_score |->
          Frac(TableScores(sel)[table1] + TableScores(sel)[info1.to_table]
                 + TableScores(sel)[info2.to_table], 3),
      connection_id |-> sel[1].connection_id,
      join_paths |-> << JoinPath(table1, info1) >>,
      complexity |-> 3 ]

ChainCombo(sel, table1, info1, info2) ==
    [ tables |-> << table1, info1.to_table, info2.to_table >>,
      similarity_score |->
          Frac(TableScores(sel)[table1] + TableScores(sel)[info1.to_table]
                 + TableScores(sel)[info2.to_table], 3),
      connection_id |-> sel[1].connection_id,
      join_paths |-> << JoinPath(table1, info1), JoinPath(info1.to_table, info2) >>,
      complexity |-> 3 ]

ChainKept_NoOriginCheck(table_names, table1, table3) == table3 \in table_names

\* The guard of the innermost loop body: table3 is selected and is not table1.
ChainKept(table_names, table1, table3) ==
    table3 \in table_names /\ table3 # table1

generate_chains_DistinctTables(sel, fkm) ==
    LET table_names == TableNames(sel)
        ChainsVia(table1, info1) ==
            LET table2 == info1.to_table IN
            IF table2 \notin table_names \/ table2 \notin DOMAIN fkm.targets THEN << >>
            ELSE LET fk_targets_2 == fkm.targets[table2] IN
                 Concat([ k \in 1..Len(fk_targets_2) |->
                            IF /\ ChainKept(table_names, table1, fk_targets_2[k].to_table)
                               /\ fk_targets_2[k].to_table # table2
                            THEN << ChainCombo(sel, table1, info1, fk_targets_2[k]) >>
                            ELSE << >> ])
        ChainsFrom(table1) ==
            IF table1 \notin table_names THEN << >>
            ELSE LET fk_targets_1 == fkm.targets[table1] IN
                 Concat([ j \in 1..Len(fk_targets_1) |-> ChainsVia(table1, fk_targets_1[j]) ])
    IN  SortedDesc(Concat([ i \in 1..Len(fkm.keys) |-> ChainsFrom(fkm.keys[i]) ]))

generate_chains(sel, fkm) ==
    LET table_names == TableNames(sel)
        ChainsVia(table1, info1) ==
            LET table2 == info1.to_table IN
            IF table2 \notin table_names \/ table2 \notin DOMAIN fkm.targets THEN << >>
            ELSE LET fk_targets_2 == fkm.targets[table2] IN
                 Concat([ k \in 1..Len(fk_targets_2) |->
                            IF ChainKept(table_names, table1, fk_targets_2[k].to_table)
                            THEN << ChainCombo(sel, table1, info1, fk_targets_2[k]) >>
                            ELSE << >> ])
        ChainsFrom(table1) ==
            IF table1 \notin table_names THEN << >>
            ELSE LET fk_targets_1 == fkm.targets[table1] IN
                 Concat([ j \in 1..Len(fk_targets_1) |-> ChainsVia(table1, fk_targets_1[j]) ])
    IN  SortedDesc(Concat([ i \in 1..Len(fkm.keys) |-> ChainsFrom(fkm.keys[i]) ]))

CapAt30_BestFirst(combinations) ==
    IF Len(combinations) > 30 THEN Take(SortedDesc(combinations), 30) ELSE combinations

\* Step 4: if len(combinations) > 30: combinations = combinations[:30].
CapAt30(combinations) == IF Len(combinations) > 30 THEN Take(combinations, 30) ELSE combinations

\* Steps 1 to 4 of the single-connection path.
BuildCombinations(sel, fkm) ==
    CapAt30(generate_singles(sel)
            \o (IF fkm.keys # << >>
                THEN generate_pairs(sel, fkm) \o generate_chains(sel, fkm)
                ELSE << >>))

\* ----------------------------------------------------------------- inputs
SmallTables == {1, 2, 3}

SelectedTable(c, n, sc) == [ connection_id |-> c, table_name |-> n, similarity_score |-> sc ]

\* Every list of up to three distinct (connection, table) pairs over the small
\* tables, with every similarity score.
SmallSelections ==
    UNION { { sel \in [1..n -> { SelectedTable(c, t, sc) :
                                   c \in Connections, t \in SmallTables, sc \in ScoreVals }] :
                \A i, j \in 1..n :
                    (sel[i].connection_id = sel[j].connection_id
                       /\ sel[i].table_name = sel[j].table_name) => i = j }
            : n \in 0..3 }

\* The tables 1..n in order, in one connection or alternating between two.
WideSelection(n, layout) ==
    [ i \in 1..n |-> SelectedTable(ConnOf(layout, i), i, 1 + (i % 3)) ]

\* Tables 1 (score 0.9) and 2 (score 0.8) of one connection.
ExampleSelection == << SelectedTable("c1", 1, 9), SelectedTable("c1", 2, 8) >>

SelectedInputs ==
    SmallSelections
    \cup { ExampleSelection }
    \cup { WideSelection(n, layout) : n \in {4, MaxSelected}, layout \in {"single", "mixed"} }

\* The contents of the foreign_keys table: every set of edges over the small
\* tables of c1 (self-references and cycles included), some of them beside
\* edges of c2, and the complete graph over four tables of c1.
FkUniverse == { FkRow("c1", f, t) : f \in SmallTables, t \in SmallTables }

OtherFk == { FkRow("c2", 1, 2), FkRow("c2", 2, 3) }

DenseFk == { FkRow("c1", f, t) : f \in 1..4, t \in 1..4 }

FkTableContents ==
    (SUBSET FkUniverse)
    \cup { DenseFk }
    \cup { OtherFk \cup S : S \in { {}, { FkRow("c1", 1, 2) },
                                      { FkRow("c1", 2, 1), FkRow("c1", 2, 3) } } }

ConnectionIdsOf(sel) == { sel[i].connection_id : i \in 1..Len(sel) }

SpansConnections_MoreThanTwo(cids) == Cardinality(cids) > 2

\* if len(connection_ids) > 1
SpansConnections(cids) == Cardinality(cids) > 1

\* Lines 29 to 42: the connection check.  list(connection_ids) lists a set,
\* in some order; list(connection_ids)[0] of the empty set raises IndexError.
GenValidate ==
    /\ genPc = "start"
    /\ LET cids == ConnectionIdsOf(selected_tables) IN
       \/ /\ SpansConnections(cids)
          /\ \E order \in Permutations3(cids) :
               genResult' = [ combinations |-> generate_singles(selected_tables),
                              metadata |-> [ error |-> "Tables from multiple databases. Only singles returned.",
                                             connection_ids |-> order ] ]
          /\ genPc' = "returned"
          /\ UNCHANGED << connection_id, genError >>
       \/ /\ ~SpansConnections(cids)
          /\ Cardinality(cids) = 0
          /\ genPc' = "failed"
          /\ genError' = "IndexError"
          /\ UNCHANGED << connection_id, genResult >>
       \/ /\ ~SpansConnections(cids)
          /\ Cardinality(cids) > 0
          /\ connection_id' \in cids
          /\ genPc' = "fetch"
          /\ UNCHANGED << genResult, genError >>
    /\ UNCHANGED << selected_tables, fk_map >>
    /\ UNCHANGED notGen

\* Line 46: get_fk_map reads the foreign_keys table as it is at the call;
\* an exception of the store propagates.
GenFetchFkMap ==
    /\ genPc = "fetch"
    /\ \/ /\ \E foreign_keys \in FkTableContents :
               \E rows \in RowOrders(FkQuery(foreign_keys, connection_id,
                                             TableNames(selected_tables))) :
                   fk_map' = BuildFkMap(rows)
          /\ genPc' = "build"
          /\ UNCHANGED genError
       \/ /\ genPc' = "failed"
          /\ genError' = "metadata_store"
          /\ UNCHANGED fk_map
    /\ UNCHANGED << selected_tables, connection_id, genResult >>
    /\ UNCHANGED notGen

\* Lines 48 to 72.
GenBuild ==
    /\ genPc = "build"
    /\ LET combinations == BuildCombinations(selected_tables, fk_map) IN
       genResult' = [ combinations |-> combinations,
                      metadata |-> [ total_combinations |-> Len(combinations),
                                     connection_id |-> connection_id,
                                     fk_relationships_found |-> Len(fk_map.keys) ] ]
    /\ genPc' = "returned"
    /\ UNCHANGED << selected_tables, connection_id, fk_map, genError >>
    /\ UNCHANGED notGen

GenNext ==
    \/ GenValidate
    \/ GenFetchFkMap
    \/ GenBuild

GenStart(sel) ==
    /\ selected_tables = sel
    /\ connection_id = "none"
    /\ fk_map = EmptyFkMap
    /\ genPc = "start"
    /\ genResult = [ combinations |-> << >> ]
    /\ genError = "none"

GenIdle ==
    /\ selected_tables = << >>
    /\ connection_id = "none"
    /\ fk_map = EmptyFkMap
    /\ genPc = "idle"
    /\ genResult = [ combinations |-> << >> ]
    /\ genError = "none"

\* ======================================================================
\* GraphRanker (src/graph_ranker.py)
\* ======================================================================

\* Strings are sequences of characters.
Str_id == << "i", "d" >>
Str_name == << "n", "a", "m", "e" >>
Str_city == << "c", "i", "t", "y" >>
Str_city_id == << "c", "i", "t", "y", "_", "i", "d" >>
Str_total == << "t", "o", "t", "a", "l" >>

stop_words ==
    { << "t", "h", "e" >>, << "a" >>, << "a", "n" >>, << "a", "n", "d" >>, << "o", "r" >>,
      << "b", "u", "t" >>, << "i", "n" >>, << "o", "n" >>, << "a", "t" >>, << "t", "o" >>,
      << "f", "o", "r" >>, << "o", "f" >>, << "w", "i", "t", "h" >>, << "b", "y" >>,
      << "f", "r", "o", "m" >>, << "a", "s" >>, << "i", "s" >>, << "w", "a", "s" >>,
      << "a", "r", "e" >>, << "w", "e", "r", "e" >>, << "b", "e", "e", "n" >>,
      << "b", "e" >>, << "h", "a", "v", "e" >>, << "h", "a", "s" >>, << "h", "a", "d" >>,
      << "d", "o" >>, << "d", "o", "e", "s" >>, << "d", "i", "d" >>,
      << "w", "i", "l", "l" >>, << "w", "o", "u", "l", "d" >>,
      << "s", "h", "o", "u", "l", "d" >>, << "c", "o", "u", "l", "d" >>,
      << "m", "a", "y" >>, << "m", "i", "g", "h", "t" >>, << "m", "u", "s", "t" >>,
      << "c", "a", "n" >>, << "g", "e", "t" >>, << "s", "h", "o", "w" >>,
      << "l", "i", "s", "t" >> }

\* str.lower() on the characters the questions use.
LowerChar(c) == IF c = "N" THEN "n" ELSE IF c = "C" THEN "c" ELSE c
Lower(str) == [ i \in 1..Len(str) |-> LowerChar(str[i]) ]

\* The characters \w matches, among those the questions use.
IsWordChar(c) == c \notin { " ", "?", "," }

\* re.findall(r'\w+', text): the maximal runs of word characters.
RECURSIVE FindWords(_, _)
FindWords(text, word) ==
    IF text = << >> THEN (IF word = << >> THEN << >> ELSE << word >>)
    ELSE IF IsWordChar(Head(text)) THEN FindWords(Tail(text), Append(word, Head(text)))
    ELSE (IF word = << >> THEN << >> ELSE << word >>) \o FindWords(Tail(text), << >>)

extract_keywords_simple(q) ==
    LET words == FindWords(Lower(q), << >>) IN
    SelectSeqIdx(words, [ i \in 1..Len(words) |->
                            words[i] \notin stop_words /\ Len(words[i]) > 3 ], 1)

\* Python's a in b for strings.
IsSubstring(a, b) ==
    \E i \in 1..(Len(b) - Len(a) + 1) : SubSeq(b, i, i + Len(a) - 1) = a

\* A KeyError of schema_metadata[table_name].
HasAllTables(combo, meta) == \A i \in 1..Len(combo.tables) : combo.tables[i] \in DOMAIN meta

ComboColumns(combo, meta) ==
    Concat([ i \in 1..Len(combo.tables) |->
               [ j \in 1..Len(meta[combo.tables[i]].columns) |->
                   Lower(meta[combo.tables[i]].columns[j].name) ] ])

calculate_column_coverage_ZeroWhenNoKeywords(combo, q, meta) ==
    LET keywords == extract_keywords_simple(q)
        combo_columns == ComboColumns(combo, meta)
        matches == Cardinality({ k \in 1..Len(keywords) :
                       \E c \in 1..Len(combo_columns) :
                           \/ IsSubstring(keywords[k], combo_columns[c])
                           \/ IsSubstring(combo_columns[c], keywords[k]) })
    IN  Frac(matches, Max(1, Len(keywords)))

\* calculate_column_coverage, as matches over len(keywords); 1 over 2 when
\* the question has no keyword.
calculate_column_coverage(combo, q, meta) ==
    LET keywords == extract_keywords_simple(q)
        combo_columns == ComboColumns(combo, meta)
        matches == Cardinality({ k \in 1..Len(keywords) :
                       \E c \in 1..Len(combo_columns) :
                           \/ IsSubstring(keywords[k], combo_columns[c])
                           \/ IsSubstring(combo_columns[c], keywords[k]) })
    IN  IF Len(keywords) = 0 THEN Frac(1, 2) ELSE Frac(matches, Len(keywords))

\* calculate_heuristic_score, in thousandths over the denominator of the
\* coverage: 0.30 * simplicity + 0.20 * join_quality + 0.40 * coverage.  The
\* historical factor is commented out in the source and adds nothing.
calculate_heuristic_score(combo, q, meta) ==
    LET simplicity == IF combo.complexity = 1 THEN 10
                      ELSE IF combo.complexity = 2 THEN 8 ELSE 6
        num_joins == Len(combo.join_paths)
        join_quality == IF num_joins = 0 THEN 10 ELSE IF num_joins = 1 THEN 9 ELSE 7
        coverage == calculate_column_coverage(combo, q, meta)
    IN  Frac((30 * simplicity + 20 * join_quality) * coverage.den + 400 * coverage.num,
             1000 * coverage.den)

RECURSIVE InsertByScore_TiesReversed(_, _)
InsertByScore_TiesReversed(sorted, x) ==
    IF sorted = << >> THEN << x >>
    ELSE IF ~FracGreater(Head(sorted).score, x.score) THEN << x >> \o sorted
    ELSE << Head(sorted) >> \o InsertByScore_TiesReversed(Tail(sorted), x)

\* scored.sort(key=score, reverse=True) on (combo, score) pairs: stable.
RECURSIVE InsertByScore(_, _)
InsertByScore(sorted, x) ==
    IF sorted = << >> THEN << x >>
    ELSE IF FracGreater(x.score, Head(sorted).score) THEN << x >> \o sorted
    ELSE << Head(sorted) >> \o InsertByScore(Tail(sorted), x)

RECURSIVE SortByScore(_)
SortByScore(s) ==
    IF s = << >> THEN << >>
    ELSE InsertByScore(SortByScore(SubSeq(s, 1, Len(s) - 1)), s[Len(s)])

TopSlice_Eleven(scored) == Take(scored, 11)

\* The slice scored[:10] of heuristic_filter.
TopSlice(scored) == Take(scored, 10)

heuristic_filter(combinations, q, meta) ==
    LET scored == [ i \in 1..Len(combinations) |->
                      [ combo |-> combinations[i],
                        score |-> calculate_heuristic_score(combinations[i], q, meta) ] ]
        kept == TopSlice(SortByScore(scored))
    IN  [ i \in 1..Len(kept) |-> kept[i].combo ]

\* str(n) for a natural number: the model's table names and FK column names
\* are numbers, written into the texts by their decimal digits.
DigitChar(d) == << "0", "1", "2", "3", "4", "5", "6", "7", "8", "9" >>[d + 1]

RECURSIVE IntStr(_)
IntStr(n) == IF n < 10 THEN << DigitChar(n) >> ELSE IntStr(n \div 10) \o << DigitChar(n % 10) >>

\* sep.join(parts) on strings.
RECURSIVE JoinText(_, _)
JoinText(parts, sep) ==
    IF parts = << >> THEN << >>
    ELSE IF Len(parts) = 1 THEN Head(parts)
    ELSE Head(parts) \o sep \o JoinText(Tail(parts), sep)

\* The separator "\\n" of the source: a backslash and the letter n.
Str_Separator == << "\\", "n" >>

ColumnNames(columns) == [ j \in 1..Len(columns) |-> columns[j].name ]

\* The schema text sent to the predictor: "Table: name (col1, col2)" for each
\* table of the combination that schema_metadata knows, in tables order.
SchemaText(combo, meta) ==
    LET present == SelectSeqIdx(combo.tables,
                                [ i \in 1..Len(combo.tables) |-> combo.tables[i] \in DOMAIN meta ], 1)
    IN  JoinText([ i \in 1..Len(present) |->
                     << "T", "a", "b", "l", "e", ":", " " >> \o IntStr(present[i]) \o << " ", "(" >>
                     \o JoinText(ColumnNames(meta[present[i]].columns), << ",", " " >>)
                     \o << ")" >> ],
                 Str_Separator)

JoinEqualities_FirstPairOnly(jp) ==
    [ i \in 1..Min(1, Min(Len(jp.from_columns), Len(jp.to_columns))) |->
        IntStr(jp.from_table) \o << "." >> \o IntStr(jp.from_columns[i])
        \o << " ", "=", " " >>
        \o IntStr(jp.to_table) \o << "." >> \o IntStr(jp.to_columns[i]) ]

\* The joins text: for each join path in order, "from.col = to.col" for each
\* pair of zip(from_columns, to_columns).
JoinEqualities(jp) ==
    [ i \in 1..Min(Len(jp.from_columns), Len(jp.to_columns)) |->
        IntStr(jp.from_table) \o << "." >> \o IntStr(jp.from_columns[i])
        \o << " ", "=", " " >>
        \o IntStr(jp.to_table) \o << "." >> \o IntStr(jp.to_columns[i]) ]

JoinsText(combo) ==
    JoinText(Concat([ i \in 1..Len(combo.join_paths) |-> JoinEqualities(combo.join_paths[i]) ]),
             Str_Separator)

\* QueryScorePredictor.predict returns score.item(), a Python float.
PredictScores == { 2, 5, 9 }
predict_returns == { [ type |-> "float", value |-> v ] : v \in PredictScores }

\* float(score.strip()): only a str has strip; on a float it raises
\* AttributeError.
HasStrip(score) == score.type = "str"

enrich_with_metadata(combo, meta) ==
    [ tables |-> combo.tables,
      join_paths |-> combo.join_paths,
      complexity |-> combo.complexity,
      metadata |-> [ t \in { combo.tables[i] : i \in 1..Len(combo.tables) } |->
                       [ columns |-> meta[t].columns,
                         primary_key |-> meta[t].primary_key,
                         foreign_keys |-> meta[t].foreign_keys,
                         indexes |-> meta[t].indexes,
                         row_count |-> meta[t].estimated_rows ] ] ]

\* scored_combos.sort(key=score, reverse=True): stable.
RECURSIVE InsertByFinalScore(_, _)
InsertByFinalScore(sorted, x) ==
    IF sorted = << >> THEN << x >>
    ELSE IF x.score > Head(sorted).score THEN << x >> \o sorted
    ELSE << Head(sorted) >> \o InsertByFinalScore(Tail(sorted), x)

RECURSIVE SortByFinalScore(_)
SortByFinalScore(s) ==
    IF s = << >> THEN << >>
    ELSE InsertByFinalScore(SortByFinalScore(SubSeq(s, 1, Len(s) - 1)), s[Len(s)])

\* ----------------------------------------------------------------- inputs
Str_Name == << "N", "a", "m", "e" >>

Column(n) == [ name |-> n, type |-> "VARCHAR", nullable |-> TRUE ]

\* The schemas get_schema_metadata collected, by table name.
TableColumns(t) ==
    IF t = 1 THEN << Column(Str_id), Column(Str_Name) >>
    ELSE IF t = 2 THEN << Column(Str_id), Column(Str_city_id) >>
    ELSE IF t = 3 THEN << Column(Str_total) >>
    ELSE << Column(Str_id) >>

TableSchema(t) ==
    [ columns |-> TableColumns(t), primary_key |-> << Str_id >>, foreign_keys |-> << >>,
      indexes |-> << >>, estimated_rows |-> 10 * t ]

\* get_schema_metadata skips a table whose schema it fails to read.
MetadataChoices ==
    { [ t \in tables |-> TableSchema(t) ] : tables \in { {1, 2, 3, 4}, {1, 2, 4} } }

Questions ==
    { << >>,
      << "t", "h", "e", " ", "a", " ", "a", "n" >>,
      << "s", "h", "o", "w", " ", "N", "a", "m", "e" >>,
      << "n", "a", "m", "e", ",", " ", "C", "i", "t", "y", "?" >>,
      << "p", "a", "i", "d", " ", "i", "d" >>,
      << "n", "a", "m", "e", " ", "c", "i", "t", "y", " ", "t", "o", "t", "a", "l" >> }

\* The combinations handed to the ranker: outputs of the generator.
RankInputs ==
    { BuildCombinations(WideSelection(n, "single"), BuildFkMap(RowsAscending(fks))) :
        n \in 0..4,
        fks \in { {}, { FkRow("c1", 1, 2), FkRow("c1", 2, 3) }, DenseFk,
                  { FkRow2("c1", 1, 2), FkRow("c1", 2, 3) } } }

RankFails(why) ==
    /\ rankPc' = "failed"
    /\ rankError' = why

\* Job 1 of graph_ranker: heuristic_filter scores every combination; a table
\* missing from schema_metadata raises KeyError in calculate_column_coverage.
HeuristicFilter ==
    /\ rankPc = "start"
    /\ IF \A i \in 1..Len(rank_combinations) : HasAllTables(rank_combinations[i], schema_metadata)
       THEN /\ top_10' = heuristic_filter(rank_combinations, question, schema_metadata)
            /\ rankPc' = "score"
            /\ UNCHANGED rankError
       ELSE /\ RankFails("KeyError")
            /\ UNCHANGED top_10
    /\ UNCHANGED << question, schema_metadata, rank_combinations, combo_idx, predict_log,
                    scored_combos, rankResult >>
    /\ UNCHANGED notRank

AfterPredictRaised_SkipCandidate(idx) == [ pc |-> "score", idx |-> idx + 1 ]

\* What follows an exception of predictor.predict for top_10[idx]: the loop
\* has no handler, the exception leaves rank_with_model.
AfterPredictRaised(idx) == [ pc |-> "failed", idx |-> idx ]

\* Job 2, one iteration of the loop of rank_with_model.
ScoreCombo ==
    /\ rankPc = "score"
    /\ combo_idx <= Len(top_10)
    /\ LET combo == top_10[combo_idx]
           call == [ schema |-> SchemaText(combo, schema_metadata), joins |-> JoinsText(combo) ]
       IN
       \/ /\ predict_log' = Append(predict_log, [ call |-> call, outcome |-> "raised" ])
          /\ rankPc' = AfterPredictRaised(combo_idx).pc
          /\ combo_idx' = AfterPredictRaised(combo_idx).idx
          /\ rankError' = "predict"
          /\ UNCHANGED scored_combos
       \/ \E score \in predict_returns :
            /\ predict_log' = Append(predict_log, [ call |-> call, outcome |-> "returned",
                                                     value |-> score.value ])
            /\ IF ~HasStrip(score)
               THEN /\ RankFails("AttributeError")
                    /\ UNCHANGED << scored_combos, combo_idx >>
               ELSE IF ~HasAllTables(combo, schema_metadata)
               THEN /\ RankFails("KeyError")
                    /\ UNCHANGED << scored_combos, combo_idx >>
               ELSE /\ scored_combos' =
                          Append(scored_combos,
                                 [ combination |-> enrich_with_metadata(combo, schema_metadata),
                                   score |-> score.value,
                                   complexity |-> combo.complexity ])
                    /\ combo_idx' = combo_idx + 1
                    /\ UNCHANGED << rankPc, rankError >>
    /\ UNCHANGED << question, schema_metadata, rank_combinations, top_10, rankResult >>
    /\ UNCHANGED notRank

\* The sort and the return of rank_with_model, which graph_ranker returns.
RankReturn ==
    /\ rankPc = "score"
    /\ combo_idx > Len(top_10)
    /\ rankResult' = SortByFinalScore(scored_combos)
    /\ rankPc' = "returned"
    /\ UNCHANGED << question, schema_metadata, rank_combinations, top_10, combo_idx,
                    predict_log, scored_combos, rankError >>
    /\ UNCHANGED notRank

RankNext ==
    \/ HeuristicFilter
    \/ ScoreCombo
    \/ RankReturn

RankStart(q, meta, combinations) ==
    /\ question = q
    /\ schema_metadata = meta
    /\ rank_combinations = combinations
    /\ top_10 = << >>
    /\ combo_idx = 1
    /\ predict_log = << >>
    /\ scored_combos = << >>
    /\ rankPc = "start"
    /\ rankResult = << >>
    /\ rankError = "none"

RankIdle ==
    /\ question = << >>
    /\ schema_metadata = << >>
    /\ rank_combinations = << >>
    /\ top_10 = << >>
    /\ combo_idx = 1
    /\ predict_log = << >>
    /\ scored_combos = << >>
    /\ rankPc = "idle"
    /\ rankResult = << >>
    /\ rankError = "none"

\* ======================================================================
\* SchemaSyncOrchestrator.sync_connection (src/sync_orchestrator.py)
\* ======================================================================

\* inspector.get_all_tables() of the connection, and the schema hashes.
SyncTables == << 1, 2 >>
SchemaHashes == { EmbeddedHash, ChangedHash }

SyncTableSet == { SyncTables[i] : i \in 1..Len(SyncTables) }

\* One iteration of the loop (lines 31 to 88) for table t with the schema
\* hash h the inspector computed, ending as outcome says.  Every exception
\* of the body is caught at line 87 and the loop goes on with the next
\* table.
\*   "inspect_failed"  get_table_schema of the inspector or of the store
\*                     raised (lines 34, 37)
\*   "skipped"         the stored hash equals h (lines 42 to 45)
\*   "store_failed"    store_table_schema raised (line 48)
\*   "embed_failed"    the metadata is stored; embedding_exists,
\*                     generate_embedding or the query or delete of
\*                     store_embedding raised (lines 51, 60, 119, 124)
\*   "insert_failed"   the metadata is stored and the old embedding deleted;
\*                     insert or flush raised (lines 136, 137)
\*   "synced"          the metadata is stored and the embedding carries h
SyncOutcomes(t, h) ==
    {"inspect_failed"}
    \cup (IF table_metadata[t] = h THEN {"skipped"}
          ELSE {"store_failed", "synced"}
               \cup (IF embeddings[t] = h THEN {} ELSE {"embed_failed", "insert_failed"}))

MetadataAfter(t, h, outcome) ==
    IF outcome \in {"embed_failed", "insert_failed", "synced"}
    THEN [ table_metadata EXCEPT ![t] = h ]
    ELSE table_metadata

\* store_embedding deletes the table's old embedding, then inserts the new.
EmbeddingsAfter(t, h, outcome) ==
    IF outcome = "synced" THEN [ embeddings EXCEPT ![t] = h ]
    ELSE IF outcome = "insert_failed" THEN [ embeddings EXCEPT ![t] = "none" ]
    ELSE embeddings

\* A call of sync_connection begins: lines 18 to 29.
SyncStart ==
    /\ syncPc \in {"idle", "done"}
    /\ sync_runs < MaxSyncRuns
    /\ sync_runs' = sync_runs + 1
    /\ sync_idx' = 1
    /\ sync_failed' = FALSE
    /\ syncPc' = "loop"
    /\ UNCHANGED << source_hash, table_metadata, embeddings >>
    /\ UNCHANGED notSync

SyncTable ==
    /\ syncPc = "loop"
    /\ sync_idx <= Len(SyncTables)
    /\ LET t == SyncTables[sync_idx]
           h == source_hash[t]
       IN  \E outcome \in SyncOutcomes(t, h) :
             /\ table_metadata' = MetadataAfter(t, h, outcome)
             /\ embeddings' = EmbeddingsAfter(t, h, outcome)
             /\ sync_failed' = (sync_failed \/ outcome \notin {"skipped", "synced"})
    /\ sync_idx' = sync_idx + 1
    /\ UNCHANGED << source_hash, sync_runs, syncPc >>
    /\ UNCHANGED notSync

\* Lines 90 to 93: the loop is over.
SyncEnd ==
    /\ syncPc = "loop"
    /\ sync_idx > Len(SyncTables)
    /\ syncPc' = "done"
    /\ UNCHANGED << source_hash, table_metadata, embeddings, sync_idx, sync_failed, sync_runs >>
    /\ UNCHANGED notSync

\* Between two runs the schema of a table of the source database changes.
SchemaChanges ==
    /\ syncPc \in {"idle", "done"}
    /\ sync_runs < MaxSyncRuns
    /\ \E t \in SyncTableSet : \E h \in SchemaHashes \ { source_hash[t] } :
         source_hash' = [ source_hash EXCEPT ![t] = h ]
    /\ UNCHANGED << table_metadata, embeddings, sync_idx, sync_failed, sync_runs, syncPc >>
    /\ UNCHANGED notSync

SyncNext ==
    \/ SyncStart
    \/ SyncTable
    \/ SyncEnd
    \/ SchemaChanges

\* No sync has run: the metadata store and the index are empty.
SyncFresh ==
    /\ table_metadata = [ t \in SyncTableSet |-> "none" ]
    /\ embeddings = [ t \in SyncTableSet |-> "none" ]
    /\ sync_idx = 1
    /\ sync_failed = FALSE
    /\ sync_runs = 0
    /\ syncPc = "idle"

SyncIdle ==
    /\ source_hash = [ t \in SyncTableSet |-> EmbeddedHash ]
    /\ SyncFresh

\* ======================================================================
\* Specifications
\* ======================================================================

\* One pass of the loop of main(): search_tables for the configured
\* connection with top_k=5, then generate_combinations on its tables.  An
\* exception of either call ends main().
MainCallsGenerator ==
    /\ scoutPc = "returned"
    /\ genPc = "idle"
    /\ selected_tables' = scoutResult.tables
    /\ genPc' = "start"
    /\ UNCHANGED << connection_id, fk_map, genResult, genError >>
    /\ UNCHANGED << scoutVars, rankVars, syncVars >>

Init == ScoutStart({"c1"}, MainTopK, "single", MaxMainIndex) /\ GenIdle /\ RankIdle /\ SyncIdle

Next ==
    \/ EmbedQuestion
    \/ VectorSearch
    \/ ValidateHit
    \/ EndValidation
    \/ TriggerAsyncResync
    \/ SelectCutoff
    \/ MainCallsGenerator
    \/ GenValidate
    \/ GenFetchFkMap
    \/ GenBuild

Spec == Init /\ [][Next]_vars

\* search_tables called on its own.
InitScout ==
    /\ GenIdle
    /\ RankIdle
    /\ SyncIdle
    /\ \E call \in { << {}, MaxIndex, "mixed" >>, << {"c1"}, DefaultTopK, "mixed" >>,
                     << {"c1"}, MainTopK, "single" >> } :
          ScoutStart(call[1], call[2], call[3], MaxIndex)

SpecScout == InitScout /\ [][ScoutNext]_vars

\* Step 6 of search_tables on its own: the call has embedded the question,
\* got n hits of one connection from the index (top_k = n, no filter), found
\* every one of them validated, and is about to select the cutoff.  Scores
\* are in hundredths here.
ElbowScores == {25, 30, 70, 75, 80, 85, 90}

\* The index returns its hits best first: the sequences of n scores, none
\* above top, that never increase.
RECURSIVE ElbowScoreSeqs(_, _)
ElbowScoreSeqs(n, top) ==
    IF n = 0 THEN { << >> }
    ELSE UNION { { << v >> \o t : t \in ElbowScoreSeqs(n - 1, v) } :
                 v \in { x \in ElbowScores : x <= top } }

AllValidated(hits) ==
    [ i \in 1..Len(hits) |->
        ValidatedEntry(hits[i], [ found |-> TRUE, hash |-> hits[i].schema_hash ]) ]

InitElbow ==
    /\ GenIdle
    /\ RankIdle
    /\ SyncIdle
    /\ \E n \in 0..MaxValidated : \E s \in ElbowScoreSeqs(n, 90) :
         /\ collection = IndexEntries("single", s)
         /\ top_k = n
         /\ connection_ids = {}
         /\ results = search(collection, top_k)
         /\ hit_idx = Len(results) + 1
         /\ store_replies = [ i \in 1..Len(results) |->
                                [ found |-> TRUE, hash |-> results[i].schema_hash ] ]
         /\ validated_results = AllValidated(results)
         /\ tables_to_resync = << >>
         /\ resync_queue = << >>
         /\ scoutPc = "elbow"
         /\ scoutResult = [ tables |-> << >> ]
         /\ scoutError = "none"

SpecElbow == InitElbow /\ [][SelectCutoff]_vars

\* sync_connection run again and again on a fresh store and index.
InitSync ==
    /\ ScoutIdle
    /\ GenIdle
    /\ RankIdle
    /\ source_hash \in [ SyncTableSet -> SchemaHashes ]
    /\ SyncFresh

SpecSync == InitSync /\ [][SyncNext]_vars

\* generate_combinations called on its own.
InitGen == ScoutIdle /\ RankIdle /\ SyncIdle /\ \E sel \in SelectedInputs : GenStart(sel)

SpecGen == InitGen /\ [][GenNext]_vars

\* graph_ranker called on its own.
InitRank ==
    /\ ScoutIdle
    /\ GenIdle
    /\ SyncIdle
    /\ \E q \in Questions : \E meta \in MetadataChoices : \E combinations \in RankInputs :
         RankStart(q, meta, combinations)

SpecRank == InitRank /\ [][RankNext]_vars

\* ======================================================================
\* Properties
\* ======================================================================

Combos == genResult.combinations

\* C1: every combination generate_combinations returns, on either path, has
\* complexity equal to its number of tables, one join path fewer than its
\* complexity, and between one and three tables.
C1_CombinationShape ==
    genPc = "returned" =>
        \A i \in 1..Len(Combos) :
            /\ Combos[i].complexity = Len(Combos[i].tables)
            /\ Len(Combos[i].join_paths) = Combos[i].complexity - 1
            /\ Len(Combos[i].tables) \in 1..3

\* A single-connection result that holds a single, a pair and a chain.
C1_Witness ==
    /\ genPc = "returned"
    /\ \A n \in 1..3 : \E i \in 1..Len(Combos) : Combos[i].complexity = n

MultiConnection == Cardinality(ConnectionIdsOf(selected_tables)) > 1

\* C2: a selection that spans connections gets one complexity-1 combination
\* per selected table and nothing else, the FK adjacency is never fetched,
\* the metadata has an error entry and lists each distinct connection id
\* once; and on every path each table of a returned combination is a
\* selected table of the combination's own connection.
C2_MultiConnectionSinglesOnly ==
    /\ MultiConnection =>
         /\ genPc \in {"start", "returned"}
         /\ fk_map = EmptyFkMap
         /\ genPc = "returned" =>
              /\ Len(Combos) = Len(selected_tables)
              /\ \A i \in 1..Len(Combos) :
                   /\ Combos[i].tables = << selected_tables[i].table_name >>
                   /\ Combos[i].connection_id = selected_tables[i].connection_id
                   /\ Combos[i].complexity = 1
                   /\ Combos[i].join_paths = << >>
              /\ "error" \in DOMAIN genResult.metadata
              /\ "connection_ids" \in DOMAIN genResult.metadata
              /\ { genResult.metadata.connection_ids[j] :
                     j \in 1..Len(genResult.metadata.connection_ids) }
                   = ConnectionIdsOf(selected_tables)
              /\ Len(genResult.metadata.connection_ids)
                   = Cardinality(ConnectionIdsOf(selected_tables))
    /\ genPc = "returned" =>
         \A i \in 1..Len(Combos) : \A k \in 1..Len(Combos[i].tables) :
             \E j \in 1..Len(selected_tables) :
                 /\ selected_tables[j].table_name = Combos[i].tables[k]
                 /\ selected_tables[j].connection_id = Combos[i].connection_id

\* Tables 1 and 2 selected from two connections (c1 has the edge 1 -> 2 in
\* some contents of the foreign_keys table), and the call has returned.
C2_Witness ==
    /\ genPc = "returned"
    /\ MultiConnection
    /\ \E i, j \in 1..Len(selected_tables) :
         /\ selected_tables[i].table_name = 1 /\ selected_tables[i].connection_id = "c1"
         /\ selected_tables[j].table_name = 2 /\ selected_tables[j].connection_id = "c2"

\* C3: the list generate_combinations returns has at most 30 entries, on the
\* multi-connection path as on the single-connection path.
C3_AtMost30 == genPc = "returned" => Len(Combos) <= 30

\* C4: no 3-table combination has tables[0] = tables[2], whatever the FK
\* adjacency (cycles and self-references included).
C4_NoOriginRevisit ==
    genPc = "returned" =>
        \A i \in 1..Len(Combos) :
            Len(Combos[i].tables) = 3 => Combos[i].tables[1] # Combos[i].tables[3]

EdgeInMap(f, t) ==
    f \in DOMAIN fk_map.targets
    /\ \E j \in 1..Len(fk_map.targets[f]) : fk_map.targets[f][j].to_table = t

\* The adjacency holds a cycle a -> b -> a and a self-reference, and chains
\* were produced.
C4_Witness ==
    /\ genPc = "returned"
    /\ \E a, b \in TableNames(selected_tables) :
         a # b /\ EdgeInMap(a, b) /\ EdgeInMap(b, a) /\ EdgeInMap(a, a)
    /\ \E i \in 1..Len(Combos) : Len(Combos[i].tables) = 3

\* C5: the list the ranker returns has at most 10 entries and at most as
\* many as the input: heuristic_filter keeps at most 10 of the input,
\* rank_with_model scores at most those, and the returned list is no longer.
C5_RankerOutputBounded ==
    /\ Len(top_10) <= 10
    /\ Len(top_10) <= Len(rank_combinations)
    /\ Len(scored_combos) <= Len(top_10)
    /\ rankPc = "returned" =>
         /\ Len(rankResult) <= 10
         /\ Len(rankResult) <= Len(rank_combinations)

\* heuristic_filter has cut more than 10 combinations down to 10.
C5_Witness ==
    /\ rankPc # "start"
    /\ Len(rank_combinations) > 10
    /\ Len(top_10) = 10

\* C7: zero candidates at a stage give an empty result and no exception:
\* search_tables with no validated hit returns no table, generate_combinations
\* on an empty selection returns an empty combinations list, the ranker on an
\* empty list returns an empty list.
C7_ZeroCandidatesGiveEmptyResult ==
    /\ (scoutPc = "returned" /\ Len(validated_results) = 0) => scoutResult.tables = << >>
    /\ (selected_tables = << >> /\ genPc \notin {"idle", "start"}) =>
         (genPc = "returned" /\ Combos = << >>)
    /\ (rank_combinations = << >> /\ rankPc \notin {"idle", "start", "score"}) =>
         (rankPc = "returned" /\ rankResult = << >>)

PredictRaised == \E i \in 1..Len(predict_log) : predict_log[i].outcome = "raised"

\* C8: once a call of the scoring collaborator has failed for a candidate,
\* the rank call has failed and returns no list: it is never in the returned
\* state, no further candidate is scored and the result stays unset.
C8_ScoringFailureIsFatal ==
    PredictRaised =>
        /\ rankPc = "failed"
        /\ rankResult = << >>
        /\ predict_log[Len(predict_log)].outcome = "raised"

\* The predictor raised for the first of several candidates.
C8_Witness ==
    /\ PredictRaised
    /\ Len(top_10) > 1
    /\ rankPc = "failed"

\* The hits of results, by position, that the store's replies validate.
ValidPositions ==
    { i \in 1..Len(store_replies) :
        store_replies[i].found /\ store_replies[i].hash = results[i].schema_hash }

NthValid(j) == CHOOSE i \in ValidPositions : Cardinality({ v \in ValidPositions : v < i }) = j - 1

\* C9: with no validated hit, search_tables returns an empty table list with
\* k = 0 and the result still has the total_searched and stale_embeddings
\* fields.
C9_EmptyResultKeepsShape ==
    (scoutPc = "returned" /\ ValidPositions = {}) =>
        /\ scoutResult.tables = << >>
        /\ scoutResult.k = 0
        /\ {"total_searched", "stale_embeddings"} \subseteq DOMAIN scoutResult

\* C10: the returned tables are the first min(k, number of validated hits)
\* validated hits, in the order of the index; a hit whose hash differs from
\* the store's, or whose table the store does not have, is not among them.
C10_ValidatedPrefix ==
    scoutPc = "returned" =>
        LET n == Min(scoutResult.k, Cardinality(ValidPositions)) IN
        /\ Len(store_replies) = Len(results)
        /\ Len(scoutResult.tables) = n
        /\ \A j \in 1..n :
             /\ scoutResult.tables[j].connection_id = results[NthValid(j)].connection_id
             /\ scoutResult.tables[j].table_name = results[NthValid(j)].table_name
             /\ scoutResult.tables[j].similarity_score = results[NthValid(j)].distance
        /\ \A j \in 1..Len(scoutResult.tables) : \A i \in 1..Len(results) :
             (/\ results[i].connection_id = scoutResult.tables[j].connection_id
              /\ results[i].table_name = scoutResult.tables[j].table_name)
             => i \in ValidPositions

\* More hits are validated than the cutoff keeps, and a stale hit stands
\* before a validated one.
C10_Witness ==
    /\ scoutPc = "returned"
    /\ Cardinality(ValidPositions) > scoutResult.k
    /\ \E i \in 1..Len(results) : i \notin ValidPositions /\ i + 1 \in ValidPositions

\* C11: dispatching resync jobs never affects the response: whether the
\* resync facility accepts the jobs, is unavailable or raises when a job is
\* queued, search_tables does not fail because of it.
C11_ResyncNeverAffectsResponse ==
    ~(scoutPc = "failed" /\ scoutError = "resync")

\* C12: a failure of the metadata store while one hit is validated does not
\* end the call: the validation loop goes on with the remaining hits.
C12_StoreFailureIsIsolated ==
    ~(scoutPc = "failed" /\ scoutError = "metadata_store")

Keywords == extract_keywords_simple(question)

\* The combinations whose coverage heuristic_filter has computed.
CoverageComputed(i) ==
    /\ rankPc \notin {"idle", "start"}
    /\ i \in 1..Len(rank_combinations)
    /\ \A j \in 1..i : HasAllTables(rank_combinations[j], schema_metadata)

CoverageOf(i) == calculate_column_coverage(rank_combinations[i], question, schema_metadata)

IsHalf(f) == 2 * f.num = f.den

\* C13 as stated: the coverage is 0.5 for every question with no keyword,
\* and is never 0.5 for a question with at least one keyword.
C13_HalfExactlyWhenNoKeywords ==
    \A i \in 1..Len(rank_combinations) :
        CoverageComputed(i) => (IsHalf(CoverageOf(i)) <=> Len(Keywords) = 0)

\* The keywords, by position, found in (or holding) a lower-cased column name
\* of one of the combination's tables.
MatchedKeywords(combo) ==
    { k \in 1..Len(Keywords) :
        \E t \in 1..Len(combo.tables) :
            \E c \in 1..Len(schema_metadata[combo.tables[t]].columns) :
                LET col == Lower(schema_metadata[combo.tables[t]].columns[c].name) IN
                IsSubstring(Keywords[k], col) \/ IsSubstring(col, Keywords[k]) }

\* C13, amended: the coverage is 0.5 for every question with no keyword, for
\* any combination; for a question with keywords it is the share of the
\* keywords that match a column name, hence 0.5 exactly when half of them do.
C13_HalfWhenNoKeywords ==
    \A i \in 1..Len(rank_combinations) :
        CoverageComputed(i) =>
            /\ Len(Keywords) = 0 => IsHalf(CoverageOf(i))
            /\ Len(Keywords) > 0 =>
                 /\ CoverageOf(i).den = Len(Keywords)
                 /\ CoverageOf(i).num = Cardinality(MatchedKeywords(rank_combinations[i]))
                 /\ IsHalf(CoverageOf(i)) <=>
                      2 * Cardinality(MatchedKeywords(rank_combinations[i])) = Len(Keywords)

\* A question of stop words and short words only, scored against singles,
\* pairs and chains.
C13_Witness ==
    /\ rankPc = "score"
    /\ Len(question) > 0
    /\ Len(Keywords) = 0
    /\ \A n \in 1..3 : \E i \in 1..Len(rank_combinations) :
         rank_combinations[i].complexity = n

ValidatedScores == [ i \in 1..Len(validated_results) |-> validated_results[i].similarity_score ]

DropAt(i) == ValidatedScores[i] - ValidatedScores[i + 1]

\* The 1-based position of the first largest consecutive drop, which is the
\* 0-based index of the drop plus one.
ElbowPoint ==
    CHOOSE p \in 1..(Len(ValidatedScores) - 1) :
        /\ \A j \in 1..(Len(ValidatedScores) - 1) : DropAt(p) >= DropAt(j)
        /\ \A j \in 1..(p - 1) : DropAt(j) < DropAt(p)

\* C14: with at least 3 validated hits the cutoff is the band of the elbow
\* point (up to 5 gives 5, up to 10 gives 10, above gives 15); with at least
\* one validated hit the cutoff lies in 5..15; the scores 0.9, 0.85, 0.80,
\* 0.75, 0.70, 0.30, 0.25 give the cutoff 5.
C14_CutoffIsBandOfElbow ==
    scoutPc = "returned" =>
        /\ Len(ValidatedScores) >= 3 =>
             scoutResult.k = (IF ElbowPoint <= 5 THEN 5
                              ELSE IF ElbowPoint <= 10 THEN 10 ELSE 15)
        /\ Len(ValidatedScores) >= 1 => scoutResult.k \in 5..15
        /\ ValidatedScores = << 90, 85, 80, 75, 70, 30, 25 >> => scoutResult.k = 5

\* The call has returned for the scores of the example.
C14_Witness ==
    /\ scoutPc = "returned"
    /\ ValidatedScores = << 90, 85, 80, 75, 70, 30, 25 >>
    /\ ElbowPoint = 5
    /\ scoutResult.k = 5

\* The similarity score of a selected table, by name.
SelectedScore(name) ==
    selected_tables[CHOOSE j \in 1..Len(selected_tables) :
                        selected_tables[j].table_name = name].similarity_score

RECURSIVE SumOfScores(_)
SumOfScores(tables) ==
    IF tables = << >> THEN 0 ELSE SelectedScore(Head(tables)) + SumOfScores(Tail(tables))

\* C15: for a single-connection selection each combination's score is the
\* mean of the similarity scores of its one, two or three tables; the
\* selection [A(0.9), B(0.8)] with the one FK edge A -> B gives exactly
\* single(A), single(B) and pair(A, B), the pair with score 0.85, complexity
\* 2 and one join path.
C15_ScoresAreMeans ==
    (genPc = "returned" /\ ~MultiConnection) =>
        /\ \A i \in 1..Len(Combos) :
             Combos[i].similarity_score.num * Len(Combos[i].tables)
                 = SumOfScores(Combos[i].tables) * Combos[i].similarity_score.den
        /\ (selected_tables = ExampleSelection /\ fk_map = BuildFkMap(<< FkRow("c1", 1, 2) >>)) =>
             /\ Len(Combos) = 3
             /\ Combos[1].tables = << 1 >> /\ Combos[1].complexity = 1
             /\ Combos[2].tables = << 2 >> /\ Combos[2].complexity = 1
             /\ Combos[3].tables = << 1, 2 >>
             /\ Combos[3].complexity = 2
             /\ Len(Combos[3].join_paths) = 1
             /\ 100 * Combos[3].similarity_score.num = 850 * Combos[3].similarity_score.den

\* The example has been run.
C15_Witness ==
    /\ genPc = "returned"
    /\ selected_tables = ExampleSelection
    /\ fk_map = BuildFkMap(<< FkRow("c1", 1, 2) >>)
    /\ Len(Combos) = 3

\* Reading the texts back.  str.split(sep): the parts of text between the
\* occurrences of sep, from the left.
StartsWith(text, prefix) ==
    Len(text) >= Len(prefix) /\ SubSeq(text, 1, Len(prefix)) = prefix

RECURSIVE Split(_, _, _)
Split(text, sep, part) ==
    IF text = << >> THEN << part >>
    ELSE IF StartsWith(text, sep)
    THEN << part >> \o Split(SubSeq(text, Len(sep) + 1, Len(text)), sep, << >>)
    ELSE Split(Tail(text), sep, Append(part, Head(text)))

Lines(text) == IF text = << >> THEN << >> ELSE Split(text, << "\\", "n" >>, << >>)

\* The table names of a schema text: of each line "Table: name (...)", what
\* stands between the prefix and the first " (".
DecodeTables(schema) ==
    [ i \in 1..Len(Lines(schema)) |->
        LET line == Lines(schema)[i]
            rest == IF StartsWith(line, << "T", "a", "b", "l", "e", ":", " " >>)
                    THEN SubSeq(line, 8, Len(line)) ELSE << "?" >>
        IN  Split(rest, << " ", "(" >>, << >>)[1] ]

\* The column pairs of a joins text: each line "a.x = b.y" read as the
\* equality of column x of table a with column y of table b.
DecodeJoins(joins) ==
    [ i \in 1..Len(Lines(joins)) |->
        LET sides == Split(Lines(joins)[i], << " ", "=", " " >>, << >>)
            from == Split(sides[1], << "." >>, << >>)
            to == Split(sides[Len(sides)], << "." >>, << >>)
        IN  [ from_table |-> from[1], from_column |-> from[Len(from)],
              to_table |-> to[1], to_column |-> to[Len(to)],
              well_formed |-> Len(sides) = 2 /\ Len(from) = 2 /\ Len(to) = 2 ] ]

\* What the texts of a combination must read back as.
TablesOf(combo) == [ i \in 1..Len(combo.tables) |-> IntStr(combo.tables[i]) ]

ColumnPairsOf(combo) ==
    Concat([ p \in 1..Len(combo.join_paths) |->
               LET jp == combo.join_paths[p] IN
               [ i \in 1..Len(jp.from_columns) |->
                   [ from_table |-> IntStr(jp.from_table),
                     from_column |-> IntStr(jp.from_columns[i]),
                     to_table |-> IntStr(jp.to_table),
                     to_column |-> IntStr(jp.to_columns[i]),
                     well_formed |-> TRUE ] ] ])

\* C16: the texts sent to the scoring collaborator for a combination read
\* back as the combination: the schema text names the tables in tables
\* order, none dropped; the joins text lists, join path after join path, one
\* equality per (from_columns[i], to_columns[i]) pair, none dropped; every
\* join path has a pair, and two consecutive join paths differ in their
\* tables, so that the join paths can be told apart.
C16_EncodingRoundTrip ==
    \A n \in 1..Len(predict_log) :
        LET combo == top_10[n]
            call == predict_log[n].call
        IN  /\ DecodeTables(call.schema) = TablesOf(combo)
            /\ DecodeJoins(call.joins) = ColumnPairsOf(combo)
            /\ \A p \in 1..Len(combo.join_paths) :
                 /\ Len(combo.join_paths[p].from_columns) >= 1
                 /\ Len(combo.join_paths[p].from_columns) = Len(combo.join_paths[p].to_columns)
            /\ \A p \in 1..(Len(combo.join_paths) - 1) :
                 << combo.join_paths[p].from_table, combo.join_paths[p].to_table >>
                   # << combo.join_paths[p + 1].from_table, combo.join_paths[p + 1].to_table >>

\* The predictor was called for a chain whose first join is over two columns.
C16_Witness ==
    /\ Len(predict_log) >= 1
    /\ Len(top_10[1].tables) = 3
    /\ Len(top_10[1].join_paths[1].from_columns) = 2
    /\ Len(DecodeJoins(predict_log[1].call.joins)) = 3

\* C17: a combination with a table missing from schema_metadata is skipped
\* and the batch goes on: the rank call does not fail on the missing table.
C17_MissingTableIsSkipped ==
    (\E i \in 1..Len(rank_combinations) : ~HasAllTables(rank_combinations[i], schema_metadata))
        => ~(rankPc = "failed" /\ rankError = "KeyError")

\* The hits of results, by position, that the store's replies make stale:
\* the table has no row, or its hash differs from the embedded one.
StalePositions == (1..Len(store_replies)) \ ValidPositions

NthStale(j) == CHOOSE i \in StalePositions : Cardinality({ v \in StalePositions : v < i }) = j - 1

\* C18: when search_tables returns, each stale hit has been queued to the
\* resync facility exactly once with its connection_id and table_name, no
\* validated hit has been queued, also when no hit is validated, and the
\* result's stale count is the number of jobs queued.
C18_StaleHitsQueuedOnce ==
    scoutPc = "returned" =>
        /\ Len(resync_queue) = Cardinality(StalePositions)
        /\ \A j \in 1..Len(resync_queue) :
             /\ resync_queue[j].connection_id = results[NthStale(j)].connection_id
             /\ resync_queue[j].table_name = results[NthStale(j)].table_name
        /\ \A j \in 1..Len(resync_queue) : \A i \in ValidPositions :
             ~(/\ resync_queue[j].connection_id = results[i].connection_id
               /\ resync_queue[j].table_name = results[i].table_name)
        /\ "stale_embeddings" \in DOMAIN scoutResult
        /\ scoutResult.stale_embeddings = Len(resync_queue)

\* C19: when embedding the question fails, search_tables has failed with no
\* result and no later step has happened: the index was not queried, the
\* metadata store was not read, no hit was validated or found stale and no
\* resync job was queued.
C19_EmbeddingFailureIsFatal ==
    scoutError = "embedding" =>
        /\ scoutPc = "failed"
        /\ scoutResult = [ tables |-> << >> ]
        /\ results = << >>
        /\ store_replies = << >>
        /\ validated_results = << >>
        /\ tables_to_resync = << >>
        /\ resync_queue = << >>

\* The embedding failed for a question the index has matching entries for.
C19_Witness ==
    /\ scoutPc = "failed"
    /\ scoutError = "embedding"
    /\ Len(search(collection, top_k)) >= 2

\* C20 as stated: with 1 or 2 validated hits the cutoff search_tables
\* reports equals the number of validated hits.
C20_CutoffIsCountBelowThree ==
    (scoutPc = "returned" /\ Cardinality(ValidPositions) \in {1, 2}) =>
        scoutResult.k = Cardinality(ValidPositions)

\* C20, amended: with 1 or 2 validated hits the cutoff search_tables reports
\* is the number of validated hits clamped into 5..15, that is 5, and every
\* validated hit is returned.
C20_CutoffIsClampedBelowThree ==
    (scoutPc = "returned" /\ Cardinality(ValidPositions) \in {1, 2}) =>
        /\ scoutResult.k = 5
        /\ Len(scoutResult.tables) = Cardinality(ValidPositions)

\* Two of at least three hits were validated.
C20_Witness ==
    /\ scoutPc = "returned"
    /\ Cardinality(ValidPositions) = 2
    /\ Len(results) >= 3

\* The directed edges of the adjacency get_fk_map returned.
FkEdges ==
    UNION { { << f, fk_map.targets[f][j].to_table >> : j \in 1..Len(fk_map.targets[f]) } :
            f \in DOMAIN fk_map.targets }

EdgeInfo(f, t) ==
    fk_map.targets[f][CHOOSE j \in 1..Len(fk_map.targets[f]) : fk_map.targets[f][j].to_table = t]

SelectedNames == TableNames(selected_tables)

PairsBuilt == generate_pairs(selected_tables, fk_map)

\* C21: generate_pairs emits exactly one complexity-2 combination [from, to]
\* for every directed edge from -> to of the adjacency with both endpoints
\* selected, carrying the edge's from_columns and to_columns, and nothing
\* else: without an edge B -> A there is no combination [B, A], and no
\* combination has an unselected table.
C21_OnePairPerDirectedEdge ==
    (genPc = "returned" /\ ~MultiConnection) =>
        LET names == SelectedNames
            allEdges == FkEdges
            edges == { e \in allEdges : e[1] \in names /\ e[2] \in names }
            pairs == PairsBuilt
        IN
        /\ Len(pairs) = Cardinality(edges)
        /\ \A e \in edges :
             Cardinality({ i \in 1..Len(pairs) : pairs[i].tables = << e[1], e[2] >> }) = 1
        /\ \A i \in 1..Len(pairs) :
             LET p == pairs[i] IN
             /\ p.complexity = 2
             /\ Len(p.tables) = 2
             /\ << p.tables[1], p.tables[2] >> \in edges
             /\ p.join_paths[1].from_columns = EdgeInfo(p.tables[1], p.tables[2]).from_columns
             /\ p.join_paths[1].to_columns = EdgeInfo(p.tables[1], p.tables[2]).to_columns
        /\ \A i \in 1..Len(Combos) :
             Len(Combos[i].tables) = 2 =>
                 << Combos[i].tables[1], Combos[i].tables[2] >> \in edges
        /\ Len(Combos) < 30 =>
             SelectSeq(Combos, LAMBDA c : c.complexity = 2) = pairs

\* The adjacency has the edge 1 -> 2 and no edge 2 -> 1, tables 1 and 2 are
\* selected, and pairs were returned.
C21_Witness ==
    /\ genPc = "returned"
    /\ ~MultiConnection
    /\ {1, 2} \subseteq SelectedNames
    /\ << 1, 2 >> \in FkEdges
    /\ << 2, 1 >> \notin FkEdges
    /\ \E i \in 1..Len(Combos) : Combos[i].tables = << 1, 2 >>

ChainsBuilt == generate_chains(selected_tables, fk_map)

ScoreAtLeast(a, b) == a.num * b.den >= b.num * a.den

\* C23: on the single-connection path the returned list is the first 30
\* entries of singles ++ pairs ++ chains: singles first, in selected_tables
\* order, then pairs, then chains, pairs and chains each descending by their
\* own score; what the cap drops is the tail of that order.
C23_CapKeepsConcatenationOrder ==
    (genPc = "returned" /\ ~MultiConnection) =>
        LET n == Len(selected_tables)
            pairs == PairsBuilt
            chains == ChainsBuilt
            total == n + (IF fk_map.keys # << >> THEN Len(pairs) + Len(chains) ELSE 0)
            kept == Len(Combos)
        IN
        /\ kept = Min(30, total)
        /\ \A i \in 1..(kept - 1) : Combos[i].complexity <= Combos[i + 1].complexity
        /\ \A i \in 1..Min(n, kept) :
             /\ Combos[i].complexity = 1
             /\ Combos[i].tables = << selected_tables[i].table_name >>
        /\ \A i \in 1..(kept - 1) :
             (Combos[i].complexity = Combos[i + 1].complexity /\ Combos[i].complexity > 1)
                 => ScoreAtLeast(Combos[i].similarity_score, Combos[i + 1].similarity_score)
        /\ \A i \in 1..kept :
             /\ (i > n /\ i <= n + Len(pairs)) => Combos[i] = pairs[i - n]
             /\ i > n + Len(pairs) => Combos[i] = chains[i - n - Len(pairs)]

\* The cap has dropped chains while the list it kept is not in score order:
\* a single stands before a pair of strictly higher score.
C23_Witness ==
    /\ genPc = "returned"
    /\ ~MultiConnection
    /\ Len(Combos) = 30
    /\ Len(selected_tables) + Len(PairsBuilt) + Len(ChainsBuilt) > 30
    /\ \E i, j \in 1..Len(Combos) :
         /\ i < j
         /\ Combos[i].complexity = 1
         /\ Combos[j].complexity = 2
         /\ FracGreater(Combos[j].similarity_score, Combos[i].similarity_score)

HeuristicScoreOf(i) == calculate_heuristic_score(rank_combinations[i], question, schema_metadata)

\* The factors of the formula, in tenths.
SimplicityOf(combo) ==
    IF combo.complexity = 1 THEN 10 ELSE IF combo.complexity = 2 THEN 8 ELSE 6

JoinQualityOf(combo) ==
    IF Len(combo.join_paths) = 0 THEN 10 ELSE IF Len(combo.join_paths) = 1 THEN 9 ELSE 7

\* C24: the heuristic score of every combination is 0.30 * simplicity
\* + 0.20 * join_quality + 0.40 * column_coverage + 0.10 * historical, with
\* historical the neutral 0.5 of the disabled historical factor.
C24_FourFactorScore ==
    \A i \in 1..Len(rank_combinations) :
        CoverageComputed(i) =>
            LET combo == rank_combinations[i]
                cov == CoverageOf(i)
                score == HeuristicScoreOf(i)
            IN  score.num * (1000 * cov.den)
                  = ((30 * SimplicityOf(combo) + 20 * JoinQualityOf(combo) + 10 * 5) * cov.den
                       + 400 * cov.num) * score.den

\* heuristic_filter has returned top_10.
FilterDone ==
    /\ rankPc \notin {"idle", "start"}
    /\ \A i \in 1..Len(rank_combinations) : HasAllTables(rank_combinations[i], schema_metadata)

PosInInput(combo) == CHOOSE i \in 1..Len(rank_combinations) : rank_combinations[i] = combo

HeuristicOf(combo) == calculate_heuristic_score(combo, question, schema_metadata)

\* C25: heuristic_filter returns min(10, n) of the n input combinations,
\* descending by heuristic score; no dropped combination has a strictly
\* higher score than a kept one; kept combinations of equal score are in
\* their input order.
C25_TopTenByHeuristic ==
    FilterDone =>
        LET n == Len(rank_combinations)
            inputs == { rank_combinations[i] : i \in 1..n }
            kept == { top_10[k] : k \in 1..Len(top_10) }
        IN
        /\ Len(top_10) = Min(10, n)
        /\ kept \subseteq inputs
        /\ Cardinality(kept) = Len(top_10)
        /\ \A k \in 1..(Len(top_10) - 1) :
             /\ ~FracGreater(HeuristicOf(top_10[k + 1]), HeuristicOf(top_10[k]))
             /\ ~FracGreater(HeuristicOf(top_10[k]), HeuristicOf(top_10[k + 1]))
                  => PosInInput(top_10[k]) < PosInInput(top_10[k + 1])
        /\ \A d \in inputs \ kept : \A c \in kept :
             ~FracGreater(HeuristicOf(d), HeuristicOf(c))

\* More than 10 combinations came in, some were dropped, and two kept ones
\* have the same score.
C25_Witness ==
    /\ FilterDone
    /\ Len(rank_combinations) > 10
    /\ Len(top_10) = 10
    /\ \E k \in 1..9 :
         /\ ~FracGreater(HeuristicOf(top_10[k]), HeuristicOf(top_10[k + 1]))
         /\ ~FracGreater(HeuristicOf(top_10[k + 1]), HeuristicOf(top_10[k]))
    /\ \E k \in 1..9 : FracGreater(HeuristicOf(top_10[k]), HeuristicOf(top_10[k + 1]))

\* C27: when every scoring call succeeds and every table of every candidate
\* is in schema_metadata, rank_with_model does not fail and returns one
\* entry per candidate, whose score is the float the predictor returned for
\* it and whose combination carries, for each table, the columns, primary
\* key, foreign keys, indexes and row count.
C27_OneScoredEntryPerCandidate ==
    (FilterDone /\ ~PredictRaised) =>
        /\ rankPc # "failed"
        /\ Len(scored_combos) = Len(predict_log)
        /\ \A n \in 1..Len(scored_combos) :
             /\ scored_combos[n].score = predict_log[n].value
             /\ scored_combos[n].combination.tables = top_10[n].tables
             /\ \A t \in 1..Len(top_10[n].tables) :
                  LET name == top_10[n].tables[t]
                      meta == scored_combos[n].combination.metadata[name]
                  IN  /\ meta.columns = schema_metadata[name].columns
                      /\ meta.primary_key = schema_metadata[name].primary_key
                      /\ meta.foreign_keys = schema_metadata[name].foreign_keys
                      /\ meta.indexes = schema_metadata[name].indexes
                      /\ meta.row_count = schema_metadata[name].estimated_rows
        /\ rankPc = "returned" =>
             /\ Len(rankResult) = Len(top_10)
             /\ \A n \in 1..Len(top_10) :
                  \E m \in 1..Len(rankResult) : rankResult[m] = scored_combos[n]

\* The index entries the filter of the call lets through.
MatchingEntries == search(collection, Len(collection))

\* C28: the index is queried with a limit above top_k: when it holds more
\* than top_k entries for the call, more than top_k hits are examined.
C28_SearchOverFetches ==
    (scoutPc \in {"validate", "resync", "elbow", "returned"} /\ Len(MatchingEntries) > top_k)
        => Len(results) > top_k

\* C29: once a run of sync_connection has completed without a failure,
\* every table whose schema hash the metadata store records has an embedding
\* in the index with the same hash, whatever failed in earlier runs.
C29_CleanRunRestoresEmbeddings ==
    (syncPc = "done" /\ ~sync_failed) =>
        \A t \in SyncTableSet :
            table_metadata[t] # "none" => embeddings[t] = table_metadata[t]

\* C30: in every pair and chain the generator returns, join path i runs from
\* tables[i] to tables[i+1] and carries the from_columns and to_columns of
\* the adjacency edge tables[i] -> tables[i+1]; every table of every
\* combination is a selected table.
C30_JoinPathsFollowTables ==
    genPc = "returned" =>
        LET names == SelectedNames
            allEdges == FkEdges
        IN
        \A i \in 1..Len(Combos) :
            LET c == Combos[i] IN
            /\ \A k \in 1..Len(c.tables) : c.tables[k] \in names
            /\ Len(c.tables) >= 2 =>
                 /\ Len(c.join_paths) = Len(c.tables) - 1
                 /\ \A p \in 1..Len(c.join_paths) :
                      /\ c.join_paths[p].from_table = c.tables[p]
                      /\ c.join_paths[p].to_table = c.tables[p + 1]
                      /\ << c.tables[p], c.tables[p + 1] >> \in allEdges
                      /\ c.join_paths[p].from_columns
                           = EdgeInfo(c.tables[p], c.tables[p + 1]).from_columns
                      /\ c.join_paths[p].to_columns
                           = EdgeInfo(c.tables[p], c.tables[p + 1]).to_columns

\* A chain over three different tables was returned beside a pair.
C30_Witness ==
    /\ genPc = "returned"
    /\ \E i \in 1..Len(Combos) : Len(Combos[i].tables) = 2
    /\ \E i \in 1..Len(Combos) :
         /\ Len(Combos[i].tables) = 3
         /\ Cardinality({ Combos[i].tables[k] : k \in 1..3 }) = 3

====
